---- MODULE Spec2Model ----
(***************************************************************************)
(* Model of dinatra's request-dispatch pipeline (src/mod.ts): the route    *)
(* table filled by App.handle, the accept loop of App.serve, the           *)
(* dispatcher App.respond and the static fallback App.respondStatic.       *)
(*                                                                         *)
(* Strings that the code takes apart (request targets, header values,      *)
(* bodies, file paths) are sequences of tokens: the separators "/", "?",   *)
(* ";", "=", " " are tokens of their own and every other token is a run of *)
(* characters holding no separator, so equality of token sequences is      *)
(* equality of the strings.                                                *)
(*                                                                         *)
(* JavaScript runs one task to completion: the only places where another   *)
(* task (a call of handle(), say) can run are the awaits.  pc names the    *)
(* position of the accept loop; AwaitPcs are the positions at an await.    *)
(***************************************************************************)
EXTENDS Integers, Sequences, FiniteSets, TLC

VARIABLES
    handlerMap,     \* App.handlerMap: method -> (path -> handler)
    staticEnabled,  \* App.staticEnabled (constructor argument)
    fs,             \* the filesystem under publicDir: path -> node
    pc,             \* position of the accept loop of serve()
    cur,            \* the request the loop is working on, with its locals
    reg,            \* history: what handle() was asked to register
    prev,           \* history: the last GET without a route whose path exists in
                    \* the filesystem, unchanged since, with the response it got
    nfs,            \* number of filesystem changes so far
    pending         \* history: the requests read whose response is not sent yet,
                    \* in the order they were read

vars == <<handlerMap, staticEnabled, fs, pc, cur, reg, prev, nfs, pending>>

(* ------------------------------ bounds -------------------------------- *)

\* number of changes other processes make to the filesystem
MaxFsChanges == 1

(* ------------------------------ values -------------------------------- *)

\* JavaScript values that one variable can hold are tagged records, so that a
\* response, null and false can be told apart.
Null == [is |-> "null"]
False == [is |-> "false"]
\* the shorthand Response [status, body-string] and the full [status, headers, body]
Pair(status, text) == [is |-> "pair", status |-> status, text |-> text]
Triple(status, headers, body) ==
    [is |-> "triple", status |-> status, headers |-> headers, body |-> body]

Truthy(v) == v.is \notin {"null", "false"}

\* the value of an expression that is undefined where a string is expected
Undefined == "undefined"

\* nothing thrown, a thrown number (typeof err === 'number'), a thrown Error object
NoError == [type |-> "none"]
Num(n) == [type |-> "number", num |-> n]
Obj(name) == [type |-> "object", name |-> name]

\* no handler (Map.get gave undefined)
NoHandler == "none"

\* errors.ts: enum ErrorCode
BadRequest == 400
NotFound == 404
InternalServerError == 500

ErrorCodes == {BadRequest, NotFound, InternalServerError}

\* errors.ts: getErrorMessage, the fixed status -> message table
getErrorMessage(status) ==
    CASE status = BadRequest -> "Bad Request"
      [] status = NotFound -> "Not Found"
      [] status = InternalServerError -> "Internal Server Error"
      [] OTHER -> Undefined

\* handler.ts: enum Method
Method == {"GET", "POST", "PUT", "PATCH", "DELETE", "OPTIONS", "LINK", "UNLINK"}

(* ---------------------------- text helpers ---------------------------- *)

RECURSIVE Join(_)
\* the string a token sequence spells
Join(toks) == IF toks = <<>> THEN "" ELSE Head(toks) \o Join(Tail(toks))

\* index of the first token equal to t, 0 when there is none
IndexOf(toks, t) ==
    IF \E i \in 1..Len(toks) : toks[i] = t
    THEN CHOOSE i \in 1..Len(toks) : toks[i] = t /\ \A j \in 1..(i - 1) : toks[j] # t
    ELSE 0

RECURSIVE SplitOn(_, _)
\* String.prototype.split(sep) for a one-character separator
SplitOn(toks, sep) ==
    LET i == IndexOf(toks, sep)
    IN IF i = 0 THEN <<toks>>
       ELSE <<SubSeq(toks, 1, i - 1)>> \o SplitOn(SubSeq(toks, i + 1, Len(toks)), sep)

RECURSIVE Trim(_)
\* String.prototype.trim
Trim(toks) ==
    IF toks # <<>> /\ Head(toks) = " " THEN Trim(Tail(toks))
    ELSE IF toks # <<>> /\ toks[Len(toks)] = " " THEN Trim(SubSeq(toks, 1, Len(toks) - 1))
    ELSE toks

Digit(d) == CASE d = 0 -> "0" [] d = 1 -> "1" [] d = 2 -> "2" [] d = 3 -> "3"
              [] d = 4 -> "4" [] d = 5 -> "5" [] d = 6 -> "6" [] d = 7 -> "7"
              [] d = 8 -> "8" [] d = 9 -> "9"

RECURSIVE NumToString(_)
\* Number.prototype.toString of a non-negative integer
NumToString(n) == IF n < 10 THEN Digit(n) ELSE NumToString(n \div 10) \o Digit(n % 10)

\* object spread / Object.assign: the keys of b override those of a
Assign(a, b) ==
    [k \in DOMAIN a \cup DOMAIN b |-> IF k \in DOMAIN b THEN b[k] ELSE a[k]]

EmptyObject == [k \in {} |-> ""]

(* ------------------------------ inputs -------------------------------- *)

Handlers == {"h1", "h2"}

RegPaths == {<<"/", "hi">>}
RegMethods == {"GET", "POST"}

SameRoute(a, b) == a.method = b.method /\ a.path = b.path

HandlerConfigs == [path : RegPaths, method : RegMethods, handler : Handlers]

\* one call of handle() registers one configuration, or two for the same method
\* and path (two for different pairs act as two calls do)
ConfigSeqs ==
    {<<c>> : c \in HandlerConfigs}
    \cup {<<cd[1], cd[2]>> :
             cd \in {x \in HandlerConfigs \X HandlerConfigs : SameRoute(x[1], x[2])}}

JsonText == <<"{", "\"a\"", ":", "1", "}">>
FormText == <<"a", "=", "1">>

Urls ==
    { <<>>,
      <<"/", "hi">>,
      <<"/", "hi", "/">>,
      <<"/", "hi", "?">>,
      <<"/", "hi", "?", "a", "=", "1">>,
      <<"/", "d">>,
      <<"/", "d", "/", "index.html">> }

Request(m, u, ct, b) == [method |-> m, url |-> u, contentType |-> ct, body |-> b]

PostBodies ==
    { <<<<>>, JsonText>>,
      <<<<"application/json">>, JsonText>>,
      <<<<"application/json">>, FormText>>,
      <<<<"application/json", ";", " ", "charset", "=", "bogus">>, FormText>>,
      <<<<"application/x-www-form-urlencoded">>, FormText>>,
      <<<<"Application/JSON">>, FormText>>,
      <<<<"application/json", " ", ";", "charset", "=", "utf-8">>, JsonText>>,
      <<<<"text/plain", ";", "charset", "=", "bogus">>, JsonText>> }

Requests ==
    {Request("GET", u, <<>>, <<>>) : u \in Urls}
    \cup {Request("POST", <<"/", "hi">>, cb[1], cb[2]) : cb \in PostBodies}
    \cup {Request("POST", <<"/", "d", "/", "index.html">>, <<>>, JsonText),
          Request("POST", <<"/", "hi", "?", "q", "=", "2">>,
                  <<"application/x-www-form-urlencoded">>, FormText),
          Request("HEAD", <<"/", "hi">>, <<>>, <<>>)}

\* what a handler does when invoked: the application's code, any of these
ReturnValues == {Pair(200, "hello"), Null}
ThrowValues == {Num(BadRequest), Num(NotFound), Num(42), Obj("Error")}

Outcomes == [kind : {"return"}, value : ReturnValues]
            \cup [kind : {"throw"}, value : ThrowValues]

(* ----------------------------- filesystem ----------------------------- *)

publicDir == <<"public">>

IndexHtml == <<"/", "index.html">>

DirPath == publicDir \o <<"/", "d">>

FsPaths == {DirPath, DirPath \o IndexHtml}

Contents == {<<1>>, <<1, 2>>}

NoNode == [kind |-> "none", len |-> 0, data |-> <<>>]
DirNode == [kind |-> "dir", len |-> 4096, data |-> <<>>]
FileNode(c) == [kind |-> "file", len |-> Len(c), data |-> c]

Nodes == {NoNode, DirNode} \cup {FileNode(c) : c \in Contents}

\* the node a path names: nothing unless every directory on the way is one
Resolve(f, path) ==
    LET parent == SubSeq(path, 1, Len(path) - 2)
    IN IF path \notin DOMAIN f THEN NoNode
       ELSE IF parent \in DOMAIN f /\ f[parent].kind # "dir" THEN NoNode
       ELSE f[path]

\* Deno.stat: the FileInfo, or a failure (the code's catch leaves fileInfo unset)
NoInfo == [kind |-> "undefined", len |-> 0, data |-> <<>>]

Stat(f, path) ==
    IF Resolve(f, path).kind = "none" THEN NoInfo ELSE Resolve(f, path)

\* Deno.open succeeds on a regular file; the handle reads the bytes it holds then
CanOpen(f, path) == Resolve(f, path).kind = "file"

FileHandle(f, path) == [is |-> "file", path |-> path, data |-> Resolve(f, path).data]

TextBody(text) == [is |-> "text", text |-> text]

InitialFs == [p \in FsPaths |-> IF p = DirPath THEN DirNode ELSE FileNode(<<1>>)]

EmptyFs == [p \in {} |-> NoNode]

(* --------------------------- collaborators ---------------------------- *)

\* mime.ts: detectedContentType, the content-type headers for a path by its extension
detectedContentType(path) ==
    IF path # <<>> /\ path[Len(path)] = "index.html"
    THEN "content-type" :> "text/html"
    ELSE "content-type" :> "application/octet-stream"

\* parameter values: strings, and the numbers of parsed JSON
Str(s) == [t |-> "string", str |-> s]
JNum(n) == [t |-> "number", num |-> n]

RECURSIVE ParsePairs(_)
ParsePairs(pairs) ==
    IF pairs = <<>> THEN EmptyObject
    ELSE LET kv == SplitOn(Head(pairs), "=")
             one == IF Head(pairs) = <<>> THEN EmptyObject
                    ELSE Join(kv[1]) :> Str(IF Len(kv) > 1 THEN Join(kv[2]) ELSE "")
         IN Assign(one, ParsePairs(Tail(pairs)))

\* params.ts: parseURLSearchParams, a URL-encoded string to a flat mapping
parseURLSearchParams(text) == ParsePairs(SplitOn(text, "&"))

\* JSON.parse: the value, or a SyntaxError
JsonParse(text) ==
    IF text = JsonText THEN [ok |-> TRUE, value |-> ("a" :> JNum(1))]
    ELSE [ok |-> FALSE, value |-> EmptyObject]

\* the labels new TextDecoder(label) accepts; any other throws a RangeError
SupportedEncodings == {"utf-8", "utf8"}

\* TextDecoder.decode of an ASCII body under utf-8: byte for byte the same text
Decode(label, bytes) == bytes

\* response.ts: processResponse, both Response shapes to the one sent on the wire
processResponse(r) ==
    IF r.is = "pair"
    THEN [status |-> r.status,
          headers |-> IF r.text = Undefined
                      THEN "content-type" :> "text/plain"
                      ELSE Assign("content-type" :> "text/plain",
                                  "content-length" :> NumToString(Len(r.text))),
          body |-> TextBody(r.text)]
    ELSE [status |-> r.status, headers |-> r.headers, body |-> r.body]

(* ------------------------- App: pure functions ------------------------ *)

\* serve, line 156: req.url.split(/\?(.+)/) splits at the first "?" that has at
\* least one character after it; without one the whole target is the path
SplitUrl(url) ==
    LET i == IndexOf(url, "?")
    IN IF i # 0 /\ i < Len(url)
       THEN [path |-> SubSeq(url, 1, i - 1), search |-> SubSeq(url, i + 1, Len(url))]
       ELSE [path |-> url, search |-> <<>>]

\* a lookup that takes a registered path that is a prefix of the request's
MapGetPrefix(m, path) ==
    IF \E p \in DOMAIN m : Len(p) <= Len(path) /\ SubSeq(path, 1, Len(p)) = p
    THEN m[CHOOSE p \in DOMAIN m : Len(p) <= Len(path) /\ SubSeq(path, 1, Len(p)) = p]
    ELSE NoHandler

\* Map.get of the inner map
MapGet(m, path) == IF path \in DOMAIN m THEN m[path] ELSE NoHandler

\* respond, lines 82-90: the handler registered for (method, path)
Lookup(hm, method, path) ==
    IF method \notin DOMAIN hm THEN NoHandler ELSE MapGet(hm[method], path)

\* a registration that keeps the handler a path already has
MapSetIfAbsent(m, path, handler) ==
    [p \in DOMAIN m \cup {path} |-> IF p \in DOMAIN m THEN m[p] ELSE handler]

\* Map.set of the inner map
MapSet(m, path, handler) ==
    [p \in DOMAIN m \cup {path} |-> IF p = path THEN handler ELSE m[p]]

RECURSIVE handle(_, _)
\* App.handle: registers the configurations in order
handle(hm, configs) ==
    IF configs = <<>> THEN hm
    ELSE LET c == Head(configs)
         IN handle([hm EXCEPT ![c.method] = MapSet(hm[c.method], c.path, c.handler)],
                   Tail(configs))

\* respond, lines 98-102: the content type without its parameters
RawContentType(header) == IF header # <<>> THEN header ELSE <<"application/octet-stream">>

TypeSegments(header) ==
    LET segs == SplitOn(RawContentType(header), ";")
    IN [i \in 1..Len(segs) |-> Trim(segs[i])]

\* a base content type that keeps the blanks around it
BaseContentTypeUntrimmed(header) == Join(SplitOn(RawContentType(header), ";")[1])

BaseContentType(header) == Join(TypeSegments(header)[1])

RECURSIVE ReduceTypeParams(_)
\* respond, lines 103-107
ReduceTypeParams(segs) ==
    IF segs = <<>> THEN EmptyObject
    ELSE LET kv == SplitOn(Head(segs), "=")
         IN Assign(Join(kv[1]) :> (IF Len(kv) > 1 THEN Join(kv[2]) ELSE Undefined),
                   ReduceTypeParams(Tail(segs)))

TypeParams(header) == ReduceTypeParams(Tail(TypeSegments(header)))

\* respond, line 109: typeParams['charset'] || 'utf-8'
Charset(header) ==
    LET tp == TypeParams(header)
    IN IF "charset" \in DOMAIN tp /\ tp["charset"] \notin {Undefined, ""}
       THEN tp["charset"] ELSE "utf-8"

\* a body parser that lets the SyntaxError of JSON.parse through
BodyParamsRawError(contentType, decodedBody) ==
    CASE contentType = "application/x-www-form-urlencoded" ->
            [err |-> NoError, params |-> parseURLSearchParams(decodedBody)]
      [] contentType = "application/json" ->
            IF JsonParse(decodedBody).ok
            THEN [err |-> NoError, params |-> JsonParse(decodedBody).value]
            ELSE [err |-> Obj("SyntaxError"), params |-> EmptyObject]
      [] OTHER -> [err |-> NoError, params |-> EmptyObject]

\* respond, lines 112-128: the params a decoded body gives, or a thrown BadRequest
BodyParams(contentType, decodedBody) ==
    CASE contentType = "application/x-www-form-urlencoded" ->
            [err |-> NoError, params |-> parseURLSearchParams(decodedBody)]
      [] contentType = "application/json" ->
            IF JsonParse(decodedBody).ok
            THEN [err |-> NoError, params |-> JsonParse(decodedBody).value]
            ELSE [err |-> Num(BadRequest), params |-> EmptyObject]
      [] OTHER -> [err |-> NoError, params |-> EmptyObject]

\* a catch block that answers every thrown value as an internal error
CatchStatusAlways500(err) == InternalServerError

\* serve, lines 165-171: the status of the response for a caught value
CatchStatus(err) == IF err.type = "number" THEN err.num ELSE InternalServerError

\* a response whose Content-Length counts one byte too many
StaticResponseOffByOne(fileInfo, staticFilePath, file) ==
    Triple(200,
           Assign("Content-Length" :> NumToString(fileInfo.len + 1),
                  detectedContentType(staticFilePath)),
           file)

\* respondStatic, lines 65-72
StaticResponse(fileInfo, staticFilePath, file) ==
    Triple(200,
           Assign("Content-Length" :> NumToString(fileInfo.len),
                  detectedContentType(staticFilePath)),
           file)

(* ------------------------------- state -------------------------------- *)

NoOutcome == [kind |-> "none"]

\* a request as the loop receives it, with the locals of serve, respond and
\* respondStatic at their initial values
NewRequest(req) ==
    [ method |-> req.method, url |-> req.url,
      contentType |-> req.contentType, body |-> req.body,
      path |-> <<>>, search |-> <<>>,
      handler |-> NoHandler,
      expected |-> NoHandler,   \* history: the handler last registered for the
                                \* request's method and path when it was looked up
      params |-> EmptyObject,
      bodyRead |-> FALSE,
      invoked |-> <<>>,         \* the handler invocations, each with its context
      outcome |-> NoOutcome,    \* what the invoked handler did
      promise |-> "none",       \* history: the handler returned a promise, which is
                                \* "pending" or "settled"
      res |-> Null,             \* what respond() returned
      staticTried |-> FALSE,
      staticFilePath |-> <<>>,
      fileInfo |-> NoInfo,
      fsAt |-> EmptyFs,         \* history: the filesystem as the first stat saw it
      fsSame |-> FALSE,         \* history: the filesystem has not changed since
      fsErrors |-> {},          \* history: the filesystem operations that failed
      staticRes |-> Null,       \* what respondStatic() returned
      err |-> NoError,          \* the value thrown
      r |-> Null,               \* serve's r
      sent |-> <<>> ]           \* the responses handed to req.respond

NoRequest == NewRequest(Request("", <<>>, <<>>, <<>>))

\* the request the loop is working on, as it was read
CurRequest == Request(cur.method, cur.url, cur.contentType, cur.body)

\* a sequence without the first occurrence of x
Remove(seq, x) ==
    LET i == IndexOf(seq, x)
    IN IF i = 0 THEN seq ELSE SubSeq(seq, 1, i - 1) \o SubSeq(seq, i + 1, Len(seq))

\* the positions of the loop.  Each of these is an await, where other tasks can
\* run; the others are "invoke" (the handler is about to be called), "loop" (the
\* response is sent and the loop body ends) and "crashed" (serve() has thrown).
AwaitPcs == {"accept", "readBody", "awaitHandler", "stat", "statIndex", "open", "send"}

\* the loop has left the request: its response is sent, or serve() has thrown
Done == pc \in {"loop", "crashed"}

\* history: the registrations in force and those overwritten by another handler

\* history: the handler of the registration in force for (method, path)
LastRegistered(last, method, path) ==
    IF \E t \in last : t.method = method /\ t.path = path
    THEN (CHOOSE t \in last : t.method = method /\ t.path = path).handler
    ELSE NoHandler

RECURSIVE Registered(_, _)
Registered(g, configs) ==
    IF configs = <<>> THEN g
    ELSE LET c == Head(configs)
         IN Registered(
              [last |-> {t \in g.last : ~SameRoute(t, c)} \cup {c},
               shadowed |-> (g.shadowed \cup {t \in g.last : SameRoute(t, c)}) \ {c}],
              Tail(configs))

(* ----------------- App: the code between two awaits ------------------- *)
\* Each operator gives the request's locals and the loop's position at the next
\* await, as [cur |-> ..., pc |-> ...].

At(c, p) == [cur |-> c, pc |-> p]

\* serve, lines 164-172: the catch block turns the thrown value into r
Throw(c, e) ==
    At([c EXCEPT !.err = e,
                 !.r = Pair(CatchStatus(e), getErrorMessage(CatchStatus(e)))],
       "send")

\* a check that reports a missing response as an internal error
CheckRServerError(c) ==
    IF Truthy(c.r) THEN At(c, "send") ELSE Throw(c, Num(InternalServerError))

\* serve, lines 161-163: a falsy r throws NotFound
CheckR(c) == IF Truthy(c.r) THEN At(c, "send") ELSE Throw(c, Num(NotFound))

\* a fallback that does not ask whether static serving is enabled
AfterRespondStaticAlways(c, enabled) ==
    IF Truthy(c.res) THEN CheckR([c EXCEPT !.r = c.res])
    ELSE At([c EXCEPT !.staticTried = TRUE, !.staticFilePath = publicDir \o c.path],
            "stat")

\* serve, lines 158-160: r = respond's value || (staticEnabled && respondStatic(path))
AfterRespond(c, enabled) ==
    IF Truthy(c.res) THEN CheckR([c EXCEPT !.r = c.res])
    ELSE IF ~enabled THEN CheckR([c EXCEPT !.r = False])
    ELSE At([c EXCEPT !.staticTried = TRUE, !.staticFilePath = publicDir \o c.path],
            "stat")

\* respond, lines 92-109: the query parameters of a GET; for any other method the
\* content type is taken apart and the decoder made, which throws a RangeError for
\* a charset it does not know, and then the body is awaited
BuildParams(c) ==
    IF c.method = "GET"
    THEN At([c EXCEPT !.params = IF c.search # <<>> THEN parseURLSearchParams(c.search)
                                 ELSE EmptyObject],
            "invoke")
    ELSE IF Charset(c.contentType) \in SupportedEncodings THEN At(c, "readBody")
    ELSE Throw(c, Obj("RangeError"))

\* a dispatcher that parses a JSON body before it looks the route up
RouteAfterBody(c, hm, enabled) ==
    LET h == Lookup(hm, c.method, c.path)
    IN IF /\ c.method # "GET"
          /\ BaseContentType(c.contentType) = "application/json"
          /\ ~JsonParse(c.body).ok
       THEN Throw([c EXCEPT !.bodyRead = TRUE], Num(BadRequest))
       ELSE IF h = NoHandler THEN AfterRespond([c EXCEPT !.res = Null], enabled)
       ELSE BuildParams([c EXCEPT !.handler = h])

\* respond, lines 82-90, for the request c with its target split
Route(c, hm, enabled) ==
    LET h == Lookup(hm, c.method, c.path)
    IN IF h = NoHandler THEN AfterRespond([c EXCEPT !.res = Null], enabled)
       ELSE BuildParams([c EXCEPT !.handler = h])

\* serve, lines 151-159: a request without a target throws NotFound outside the
\* try block, which ends serve(); otherwise the target is split and dispatched
Dispatch(c, hm, enabled) ==
    IF c.url = <<>> THEN At([c EXCEPT !.err = Num(NotFound)], "crashed")
    ELSE Route([c EXCEPT !.path = SplitUrl(c.url).path,
                         !.search = SplitUrl(c.url).search],
               hm, enabled)

\* a body step that also takes the parameters of the target's query string
ParseBodyWithQuery(c) ==
    LET decodedBody == Decode(Charset(c.contentType), c.body)
        got == BodyParams(BaseContentType(c.contentType), decodedBody)
        query == IF c.search # <<>> THEN parseURLSearchParams(c.search) ELSE EmptyObject
    IN IF got.err = NoError
       THEN At([c EXCEPT !.bodyRead = TRUE, !.params = Assign(query, got.params)],
               "invoke")
       ELSE Throw([c EXCEPT !.bodyRead = TRUE], got.err)

\* respond, lines 110-129: the body read is decoded and parsed by content type
ParseBody(c) ==
    LET decodedBody == Decode(Charset(c.contentType), c.body)
        got == BodyParams(BaseContentType(c.contentType), decodedBody)
    IN IF got.err = NoError
       THEN At([c EXCEPT !.bodyRead = TRUE, !.params = got.params], "invoke")
       ELSE Throw([c EXCEPT !.bodyRead = TRUE], got.err)

\* the context respond passes to the handler, line 131
Context(c) == [path |-> c.path, method |-> c.method, params |-> c.params]

\* respond, lines 133-136: the handler's value is respond's, what it throws goes
\* to serve's catch
Outcome(c, enabled) ==
    IF c.outcome.kind = "return"
    THEN AfterRespond([c EXCEPT !.res = c.outcome.value], enabled)
    ELSE Throw(c, c.outcome.value)

\* respondStatic, lines 62-64 and serve, line 161: null unless a regular file was found
AfterStat(c, info) ==
    IF info.kind # "file"
    THEN CheckR([c EXCEPT !.fileInfo = info, !.staticRes = Null, !.r = Null])
    ELSE At([c EXCEPT !.fileInfo = info], "open")

\* a directory step that appends "index.html" without the "/"
StatedNoSlash(c, f) ==
    LET info == Stat(f, c.staticFilePath)
        d == [c EXCEPT !.fsAt = f, !.fsSame = TRUE,
                       !.fsErrors = IF info = NoInfo THEN {"stat"} ELSE {}]
    IN IF info.kind = "dir"
       THEN At([d EXCEPT !.fileInfo = info,
                         !.staticFilePath = c.staticFilePath \o <<"index.html">>],
               "statIndex")
       ELSE AfterStat(d, info)

\* respondStatic, lines 49-55: the stat of publicDir + path has completed
Stated(c, f) ==
    LET info == Stat(f, c.staticFilePath)
        d == [c EXCEPT !.fsAt = f, !.fsSame = TRUE,
                       !.fsErrors = IF info = NoInfo THEN {"stat"} ELSE {}]
    IN IF info.kind = "dir"
       THEN At([d EXCEPT !.fileInfo = info,
                         !.staticFilePath = c.staticFilePath \o IndexHtml],
               "statIndex")
       ELSE AfterStat(d, info)

\* respondStatic, lines 56-60: the stat of index.html has completed
IndexStated(c, f) ==
    LET info == Stat(f, c.staticFilePath)
    IN AfterStat([c EXCEPT !.fsErrors = IF info = NoInfo THEN @ \cup {"statIndex"} ELSE @],
                 info)

\* respondStatic, lines 65-72: the open has completed, outside any try block
Opened(c, f) ==
    IF CanOpen(f, c.staticFilePath)
    THEN LET res == StaticResponse(c.fileInfo, c.staticFilePath,
                                   FileHandle(f, c.staticFilePath))
         IN CheckR([c EXCEPT !.staticRes = res, !.r = res])
    ELSE Throw([c EXCEPT !.fsErrors = @ \cup {"open"}], Obj("NotFound"))

(* ------------------------------ actions ------------------------------- *)

Init ==
    /\ handlerMap = [m \in Method |-> EmptyObject]
    /\ staticEnabled \in BOOLEAN
    /\ fs = InitialFs
    /\ pc = "accept"
    /\ cur = NoRequest
    /\ reg = [last |-> {}, shadowed |-> {}]
    /\ prev = <<>>
    /\ nfs = 0
    /\ pending = <<>>

Goto(s) == cur' = s.cur /\ pc' = s.pc

\* App.handle, called by the application while the loop is at an await
Handle(configs) ==
    /\ pc \in AwaitPcs
    /\ handlerMap' = handle(handlerMap, configs)
    /\ reg' = Registered(reg, configs)
    /\ UNCHANGED <<staticEnabled, fs, pc, cur, prev, nfs, pending>>

\* another process changes a file or directory under publicDir.  The code reads
\* the filesystem only when an await completes, so changes are taken there.
FsChange(path, node) ==
    /\ pc \in AwaitPcs
    /\ nfs < MaxFsChanges
    /\ node # fs[path]
    /\ fs' = [fs EXCEPT ![path] = node]
    /\ nfs' = nfs + 1
    /\ cur' = [cur EXCEPT !.fsSame = FALSE]
    /\ prev' = <<>>
    /\ UNCHANGED <<handlerMap, staticEnabled, pc, reg, pending>>

\* a loop that reads the next request at any await, the one for a handler's
\* promise included
AcceptAtAnyAwait(req) ==
    /\ pc \in AwaitPcs
    /\ LET s == Dispatch(NewRequest(req), handlerMap, staticEnabled)
       IN Goto(At([s.cur EXCEPT !.expected =
                      LastRegistered(reg.last, s.cur.method, s.cur.path)], s.pc))
    /\ pending' = Append(pending, req)
    /\ UNCHANGED <<handlerMap, staticEnabled, fs, reg, prev, nfs>>

\* serve, lines 150-160: the loop reads the next request and runs to its first await
Accept(req) ==
    /\ pc = "accept"
    /\ LET s == Dispatch(NewRequest(req), handlerMap, staticEnabled)
       IN Goto(At([s.cur EXCEPT !.expected =
                      LastRegistered(reg.last, s.cur.method, s.cur.path)], s.pc))
    /\ pending' = Append(pending, req)
    /\ UNCHANGED <<handlerMap, staticEnabled, fs, reg, prev, nfs>>

\* respond, line 110: the body has been read
ReadBody ==
    /\ pc = "readBody"
    /\ Goto(ParseBody(cur))
    /\ UNCHANGED <<handlerMap, staticEnabled, fs, reg, prev, nfs, pending>>

\* respond, lines 131-133: the handler is invoked; it returns or throws at once,
\* or returns a promise that respond awaits
Invoke(outcome, mode) ==
    /\ pc = "invoke"
    /\ LET c == [cur EXCEPT !.invoked = Append(@, [handler |-> cur.handler,
                                                   ctx |-> Context(cur)]),
                            !.outcome = outcome]
       IN IF mode = "async" THEN Goto(At([c EXCEPT !.promise = "pending"], "awaitHandler"))
          ELSE Goto(Outcome(c, staticEnabled))
    /\ UNCHANGED <<handlerMap, staticEnabled, fs, reg, prev, nfs, pending>>

\* an await that reports every rejection as an unhandled one
SettleRejectionUnhandled ==
    /\ pc = "awaitHandler"
    /\ LET c == [cur EXCEPT !.promise = "settled"]
       IN IF c.outcome.kind = "throw"
          THEN Goto(Throw(c, Obj("UnhandledRejection")))
          ELSE Goto(Outcome(c, staticEnabled))
    /\ UNCHANGED <<handlerMap, staticEnabled, fs, reg, prev, nfs, pending>>

\* respond, line 134: the handler's promise resolves or rejects
Settle ==
    /\ pc = "awaitHandler"
    /\ Goto(Outcome([cur EXCEPT !.promise = "settled"], staticEnabled))
    /\ UNCHANGED <<handlerMap, staticEnabled, fs, reg, prev, nfs, pending>>

\* respondStatic, line 50
StatPath ==
    /\ pc = "stat"
    /\ Goto(Stated(cur, fs))
    /\ UNCHANGED <<handlerMap, staticEnabled, fs, reg, prev, nfs, pending>>

\* respondStatic, line 57
StatIndex ==
    /\ pc = "statIndex"
    /\ Goto(IndexStated(cur, fs))
    /\ UNCHANGED <<handlerMap, staticEnabled, fs, reg, prev, nfs, pending>>

\* respondStatic, line 71
OpenFile ==
    /\ pc = "open"
    /\ Goto(Opened(cur, fs))
    /\ UNCHANGED <<handlerMap, staticEnabled, fs, reg, prev, nfs, pending>>

\* a send that takes the route it has answered out of the table
SendDroppingRoute ==
    /\ pc = "send"
    /\ cur' = [cur EXCEPT !.sent = Append(@, processResponse(cur.r))]
    /\ pc' = "loop"
    /\ pending' = Remove(pending, CurRequest)
    /\ handlerMap' = [m \in Method |->
                         [p \in DOMAIN handlerMap[m] \ (IF m = cur.method THEN {cur.path} ELSE {})
                            |-> handlerMap[m][p]]]
    /\ UNCHANGED <<staticEnabled, fs, reg, prev, nfs>>

\* serve, line 173: the response is handed to req.respond
Send ==
    /\ pc = "send"
    /\ cur' = [cur EXCEPT !.sent = Append(@, processResponse(cur.r))]
    /\ pc' = "loop"
    /\ pending' = Remove(pending, CurRequest)
    /\ UNCHANGED <<handlerMap, staticEnabled, fs, reg, prev, nfs>>

\* serve, lines 174 and 150: the loop body ends and the loop awaits the next request
Loop ==
    /\ pc = "loop"
    /\ pc' = "accept"
    /\ cur' = NoRequest
    /\ prev' = IF /\ cur.method = "GET" /\ cur.handler = NoHandler
                  /\ cur.staticTried /\ cur.fsSame /\ "stat" \notin cur.fsErrors
               THEN <<[path |-> cur.path, resp |-> cur.sent[1]]>>
               ELSE prev
    /\ UNCHANGED <<handlerMap, staticEnabled, fs, reg, nfs, pending>>

Next ==
    \/ \E configs \in ConfigSeqs : Handle(configs)
    \/ \E path \in FsPaths, node \in Nodes : FsChange(path, node)
    \/ \E req \in Requests : Accept(req)
    \/ ReadBody
    \/ \E outcome \in Outcomes, mode \in {"sync", "async"} : Invoke(outcome, mode)
    \/ Settle
    \/ StatPath
    \/ StatIndex
    \/ OpenFile
    \/ Send
    \/ Loop

Spec == Init /\ [][Next]_vars

(* ------------------------------- claims ------------------------------- *)

\* the response sent for the request the loop has just finished
Sent == cur.sent[1]

ErrorResponse(status) == processResponse(Pair(status, getErrorMessage(status)))

\* an error was raised while the params were built, before the handler was called
ParamsFailed == cur.err # NoError /\ cur.outcome = NoOutcome

\* the one invocation a matched request makes
ExpectedInvocation ==
    [handler |-> cur.expected,
     ctx |-> [path |-> cur.path, method |-> cur.method, params |-> cur.params]]

\* C1 as stated: a request whose method and path equal a registered pair invokes
\* that pair's handler exactly once, with the context of the request, and a
\* request that equals no registered pair invokes no handler.
C1_Original ==
    Done => IF cur.expected # NoHandler
            THEN cur.invoked = <<ExpectedInvocation>>
            ELSE cur.invoked = <<>>

\* C1 amended: a dispatched request invokes at most one handler, the one registered
\* for exactly its method and path, with the request's path, method and params;
\* it invokes it exactly once unless an error was raised while its params were
\* built, and then not at all.  A request that equals no registered pair (another
\* method, or a path that differs in any character) invokes no handler.
C1_ExactDispatch ==
    /\ cur.invoked \in {<<>>, <<ExpectedInvocation>>}
    /\ cur.invoked # <<>> => cur.expected # NoHandler
    /\ pc = "loop" /\ cur.expected # NoHandler =>
          (cur.invoked = <<>> <=> ParamsFailed)

C1_Witness ==
    /\ pc = "loop"
    /\ cur.method = "POST"
    /\ cur.invoked = <<ExpectedInvocation>>
    /\ cur.params # EmptyObject
    /\ \E t \in reg.last : t.method = "GET" /\ t.handler # cur.expected

\* C2: every request the loop has read and left has had exactly one response
\* sent for it, and none has more than one.
C2_ExactlyOneResponse ==
    /\ Len(cur.sent) <= 1
    /\ Done => Len(cur.sent) = 1

\* C3: a dispatched request that matches no registered route and for which the
\* static fallback finds no regular file (or is disabled) is answered with 404
\* and the Not-Found message.
C3_NotFound ==
    pc = "loop" /\ cur.expected = NoHandler /\ cur.fileInfo.kind # "file" =>
        cur.sent = <<processResponse(Pair(404, "Not Found"))>>

C3_Witness ==
    /\ pc = "loop"
    /\ cur.method = "POST"
    /\ cur.expected = NoHandler
    /\ cur.fsErrors = {"stat"}
    /\ Sent.status = 404

\* the request is one C4 is about: not a GET, to a registered route, with the
\* base content type application/json and a body that is not JSON
BadJsonRequest ==
    /\ cur.method \notin {"", "GET"}
    /\ cur.expected # NoHandler
    /\ BaseContentType(cur.contentType) = "application/json"
    /\ ~JsonParse(cur.body).ok

\* C4 as stated: such a request is answered with 400 and the Bad-Request message
\* and its handler is never invoked.
C4_Original ==
    Done /\ BadJsonRequest =>
        /\ cur.sent = <<processResponse(Pair(400, "Bad Request"))>>
        /\ cur.invoked = <<>>

\* C4 amended: the handler of such a request is never invoked, and the request is
\* answered with 400 and the Bad-Request message when its content type names no
\* charset or one the decoder supports.
C4_BadRequest ==
    BadJsonRequest =>
        /\ cur.invoked = <<>>
        /\ Done /\ Charset(cur.contentType) \in SupportedEncodings =>
              cur.sent = <<processResponse(Pair(400, "Bad Request"))>>

C4_Witness ==
    /\ pc = "loop"
    /\ BadJsonRequest
    /\ cur.bodyRead
    /\ Sent.status = 400
    /\ cur.invoked = <<>>

\* C5: a thrown value that is not one of the error codes with a mapped message is
\* answered with 500 and the Internal-Server-Error message.
C5_Normalized ==
    pc = "loop" /\ cur.err # NoError
                /\ ~(cur.err.type = "number" /\ cur.err.num \in ErrorCodes) =>
        cur.sent = <<processResponse(Pair(500, "Internal Server Error"))>>

\* the handler threw (or its promise rejected with) one of the error codes
HandlerThrewCode ==
    /\ cur.outcome.kind = "throw"
    /\ cur.outcome.value.type = "number"
    /\ cur.outcome.value.num \in ErrorCodes

\* C6: when the matched handler throws an error code, the response has that status
\* and the message the table maps it to; the handler is not invoked again and the
\* static fallback is not attempted.
C6_HandlerStatus ==
    pc = "loop" /\ HandlerThrewCode =>
        /\ cur.sent = <<ErrorResponse(cur.outcome.value.num)>>
        /\ Len(cur.invoked) = 1
        /\ ~cur.staticTried

C6_Witness ==
    /\ pc = "loop"
    /\ HandlerThrewCode
    /\ cur.outcome.value.num = 400
    /\ cur.sent = <<processResponse(Pair(400, "Bad Request"))>>

\* C7: a request during whose static fallback a filesystem operation failed (the
\* stat of the path, the stat of index.html or the open) is answered with 404.
C7_FsFailureIsNotFound ==
    pc = "loop" /\ cur.fsErrors # {} => Sent.status = 404

\* a GET with no registered route names a regular file, as the first stat saw it
NamesFile ==
    /\ cur.method = "GET"
    /\ cur.expected = NoHandler
    /\ cur.staticTried
    /\ Resolve(cur.fsAt, publicDir \o cur.path).kind = "file"

\* C8 as stated: such a request is answered, when the file does not change, with
\* 200, the file's bytes and their number as Content-Length; and whenever a file
\* is sent, also when the filesystem changes between the stat and the open,
\* Content-Length is the size of the body sent.
C8_Original ==
    pc = "loop" /\ NamesFile =>
        /\ cur.fsSame =>
              /\ Sent.status = 200
              /\ Sent.body = FileHandle(cur.fsAt, publicDir \o cur.path)
        /\ Sent.status = 200 =>
              Sent.headers["Content-Length"] = NumToString(Len(Sent.body.data))

\* C8 amended: Content-Length is the size the stat reported.  When the filesystem
\* does not change between the stat and the open the request is answered with
\* 200 and the file's bytes, whose number Content-Length then is.
C8_StaticFile ==
    pc = "loop" /\ NamesFile =>
        /\ cur.fsSame =>
              /\ Sent.status = 200
              /\ Sent.body = FileHandle(cur.fsAt, publicDir \o cur.path)
              /\ Sent.headers["Content-Length"] = NumToString(Len(Sent.body.data))
        /\ Sent.status = 200 =>
              Sent.headers["Content-Length"] =
                  NumToString(Resolve(cur.fsAt, publicDir \o cur.path).len)

C8_Witness ==
    /\ pc = "loop"
    /\ NamesFile
    /\ cur.fsSame
    /\ Sent.status = 200
    /\ Sent.headers["Content-Length"] = "2"
    /\ Sent.body.data = <<1, 2>>

\* the finished request and the one recorded before it are GETs without a route,
\* served from the same unchanged filesystem, one for a directory that holds a
\* regular file index.html and the other for that index.html
DirAndIndex ==
    /\ pc = "loop"
    /\ prev # <<>>
    /\ cur.method = "GET" /\ cur.expected = NoHandler
    /\ cur.staticTried /\ cur.fsSame
    /\ \E dir \in {cur.path, prev[1].path} :
          /\ {cur.path, prev[1].path} = {dir, dir \o IndexHtml}
          /\ Resolve(fs, publicDir \o dir).kind = "dir"
          /\ Resolve(fs, publicDir \o dir \o IndexHtml).kind = "file"

\* C9: a GET for a directory whose index.html is a regular file gets the response
\* (status, headers, file served) of a GET for that index.html.
C9_IndexSame == DirAndIndex => Sent = prev[1].resp

C9_Witness ==
    /\ DirAndIndex
    /\ cur.path = <<"/", "d">>
    /\ Sent.status = 200
    /\ Sent.headers["content-type"] = "text/html"

\* C10: the route table holds, for each (method, path), the handler registered
\* last and only that one, and a request invokes no handler but the one that was
\* registered last for its method and path when it was looked up.
C10_LastWins ==
    /\ \A m \in Method : \A p \in DOMAIN handlerMap[m] :
          [path |-> p, method |-> m, handler |-> handlerMap[m][p]] \in reg.last
    /\ \A t \in reg.last : Lookup(handlerMap, t.method, t.path) = t.handler
    /\ \A t \in reg.shadowed : Lookup(handlerMap, t.method, t.path) # t.handler
    /\ \A i \in DOMAIN cur.invoked : cur.invoked[i].handler = cur.expected

C10_Witness ==
    /\ pc = "loop"
    /\ Len(cur.invoked) = 1
    /\ cur.invoked[1].handler = Lookup(handlerMap, cur.method, cur.path)
    /\ \E t \in reg.shadowed : t.method = cur.method /\ t.path = cur.path

\* C11: for any one request, invoking a registered handler and attempting the
\* static fallback exclude each other, whatever the handler returns: the static
\* fallback is attempted only for a request that matched no route.
C11_HandlerOrStatic ==
    /\ ~(cur.invoked # <<>> /\ cur.staticTried)
    /\ cur.staticTried => cur.expected = NoHandler

\* a request has been started (its handler invoked or its static fallback begun)
\* and its response is not sent yet
Started == (cur.invoked # <<>> \/ cur.staticTried) /\ cur.sent = <<>>

\* C12: the loop works on one request at a time.  At most one request read is
\* without its response, and while a request is started it is that one; no request
\* can be read while the loop awaits a body, a handler's promise, the filesystem
\* or the sending of a response, so a handler that never resolves blocks every
\* later request; and each response sent is the one of the request read earliest
\* among those not answered yet.
C12_OneAtATime ==
    /\ [](Len(pending) <= 1)
    /\ [](Started => pending = <<CurRequest>>)
    /\ [](pc \in AwaitPcs \ {"accept"} => ~ENABLED (\E req \in Requests : Accept(req)))
    /\ [][Len(cur'.sent) > Len(cur.sent) =>
              pending # <<>> /\ Head(pending) = CurRequest /\ pending' = Tail(pending)]_vars

C12_Witness ==
    /\ pc = "awaitHandler"
    /\ prev # <<>>
    /\ pending = <<CurRequest>>
    /\ cur.method = "POST"

\* the part of a target before its first "?", and the part after it
BeforeFirstQuestionMark(url) ==
    IF IndexOf(url, "?") = 0 THEN url ELSE SubSeq(url, 1, IndexOf(url, "?") - 1)

AfterFirstQuestionMark(url) ==
    IF IndexOf(url, "?") = 0 THEN <<>> ELSE SubSeq(url, IndexOf(url, "?") + 1, Len(url))

\* C13: the path a dispatched request is looked up under (in the route table and
\* under publicDir) is the part of its target before the first "?", and its search
\* string is the part after it; so the target "/hi?" is looked up under "/hi".
C13_SplitAtFirstQuestionMark ==
    cur.url # <<>> =>
        /\ cur.path = BeforeFirstQuestionMark(cur.url)
        /\ cur.search = AfterFirstQuestionMark(cur.url)
        /\ cur.staticTried =>
              SubSeq(cur.staticFilePath, 1, Len(publicDir) + Len(cur.path))
                  = publicDir \o BeforeFirstQuestionMark(cur.url)

\* the params the query string of a target gives: none without a query string
QueryParams(url) ==
    IF AfterFirstQuestionMark(url) = <<>> THEN EmptyObject
    ELSE parseURLSearchParams(AfterFirstQuestionMark(url))

\* C14: the body of a GET is never read and its handler gets the parsed query
\* string as params (none when the target has no query string); the handler of
\* any other method gets the params its body gives under its content type, to
\* which the query string of the target adds nothing.
C14_ParamsSource ==
    /\ cur.method = "GET" => ~cur.bodyRead
    /\ \A i \in DOMAIN cur.invoked :
          IF cur.method = "GET"
          THEN cur.invoked[i].ctx.params = QueryParams(cur.url)
          ELSE /\ cur.bodyRead
               /\ cur.invoked[i].ctx.params =
                     BodyParams(BaseContentType(cur.contentType), cur.body).params

C14_Witness ==
    /\ pc = "loop"
    /\ cur.method = "POST"
    /\ QueryParams(cur.url) = ("q" :> Str("2"))
    /\ Len(cur.invoked) = 1
    /\ cur.invoked[1].ctx.params = ("a" :> Str("1"))

\* the text of a content-type header before its first ";", without the blanks
\* around it; nothing for a missing header
BaseToken(header) ==
    Join(Trim(SubSeq(header, 1, IF IndexOf(header, ";") = 0 THEN Len(header)
                                ELSE IndexOf(header, ";") - 1)))

\* a request that is not a GET, to a registered route, has been answered
NonGetAnswered == pc = "loop" /\ cur.method # "GET" /\ cur.expected # NoHandler

\* the handler was invoked once, with these params, and no error was raised before
InvokedWith(params) ==
    /\ Len(cur.invoked) = 1
    /\ cur.invoked[1].ctx.params = params
    /\ ~ParamsFailed

\* what the base content-type token decides for a body
BranchOutcome ==
    CASE BaseToken(cur.contentType) = "application/x-www-form-urlencoded" ->
            InvokedWith(parseURLSearchParams(cur.body))
      [] BaseToken(cur.contentType) = "application/json" ->
            JsonParse(cur.body).ok => InvokedWith(JsonParse(cur.body).value)
      [] OTHER -> InvokedWith(EmptyObject)

\* C15 as stated: the base content-type token alone decides: form-urlencoded gives
\* the URL-decoded params, JSON the members of the parsed object, and any other
\* token or a missing header gives no params, the handler being invoked and no
\* error raised.
C15_Original == NonGetAnswered => BranchOutcome

\* C15 amended: the base content-type token decides in that way when the content
\* type names no charset or one the decoder supports; with any other charset the
\* making of the decoder fails, whatever the token, the handler is not invoked and
\* the answer is 500.
C15_ContentTypeBranch ==
    NonGetAnswered =>
        IF Charset(cur.contentType) \in SupportedEncodings
        THEN BranchOutcome
        ELSE cur.invoked = <<>> /\ Sent.status = 500

C15_Witness ==
    /\ NonGetAnswered
    /\ cur.contentType = <<"application/json", " ", ";", "charset", "=", "utf-8">>
    /\ InvokedWith("a" :> JNum(1))

\* the response to a handler's value, and to a value a handler throws
HandlerResponse(outcome) ==
    IF outcome.kind = "return" THEN processResponse(outcome.value)
    ELSE ErrorResponse(CatchStatus(outcome.value))

\* C16: whether the handler returns its value (or throws) at once or through a
\* promise that resolves to it (or rejects with it), the response sent is the same
\* one, that of the value; a value that is no response sends the request to the
\* static fallback, if enabled, either way; and no response is sent while the
\* handler's promise is pending.
C16_SyncAsyncSame ==
    /\ cur.promise = "pending" => pc = "awaitHandler" /\ cur.sent = <<>>
    /\ pc = "loop" /\ cur.invoked # <<>> =>
          IF cur.outcome.kind = "return" /\ ~Truthy(cur.outcome.value)
          THEN cur.staticTried = staticEnabled
          ELSE Sent = HandlerResponse(cur.outcome)

C16_Witness ==
    /\ pc = "loop"
    /\ cur.promise = "settled"
    /\ cur.outcome.kind = "throw"
    /\ cur.outcome.value = Num(BadRequest)
    /\ Sent = ErrorResponse(400)

\* C17: a step that changes the route table is a call of handle() and no step of
\* the loop (lookup, body parsing, handler invocation, static fallback, error
\* normalization, sending); and no step takes a (method, path) out of the table.
C17_RouteTableFrame ==
    [][ /\ handlerMap' # handlerMap => pc' = pc /\ cur' = cur /\ reg' # reg
        /\ \A m \in Method : DOMAIN handlerMap[m] \subseteq DOMAIN handlerMap'[m] ]_vars

C17_Witness ==
    /\ pc = "loop"
    /\ cur.invoked # <<>>
    /\ cur.staticTried
    /\ Sent.status = 404
    /\ Lookup(handlerMap, cur.method, cur.path) = cur.invoked[1].handler
    /\ Lookup(handlerMap, "POST", <<"/", "hi">>) # NoHandler

\* C18: the body of a request that matches no registered route is never read or
\* parsed: whatever its body and content type, the request is not answered with
\* 400, it goes to the static fallback (when that is enabled), and it is answered
\* with 404 unless the static fallback found a regular file.
C18_LookupBeforeBody ==
    cur.url # <<>> /\ cur.expected = NoHandler =>
        /\ ~cur.bodyRead
        /\ cur.err \notin {Num(BadRequest), Obj("RangeError"), Obj("SyntaxError")}
        /\ pc = "loop" =>
              /\ Sent.status # 400
              /\ cur.staticTried = staticEnabled
              /\ cur.fileInfo.kind # "file" => Sent.status = 404

C18_Witness ==
    /\ pc = "loop"
    /\ cur.method = "POST"
    /\ cur.expected = NoHandler
    /\ BaseContentType(cur.contentType) = "application/json"
    /\ ~JsonParse(cur.body).ok
    /\ cur.staticTried
    /\ Sent.status = 404

\* C19: in an application constructed with staticEnabled = false the static
\* fallback is never begun and the filesystem never consulted, and every
\* dispatched request that matches no registered route is answered with 404 and
\* the Not-Found message, whatever files exist under publicDir.
C19_StaticDisabled ==
    ~staticEnabled =>
        /\ ~cur.staticTried
        /\ pc \notin {"stat", "statIndex", "open"}
        /\ cur.fileInfo = NoInfo /\ cur.fsErrors = {} /\ cur.staticRes = Null
        /\ pc = "loop" /\ cur.expected = NoHandler =>
              /\ Sent.status = 404
              /\ Sent.body = TextBody("Not Found")

C19_Witness ==
    /\ ~staticEnabled
    /\ pc = "loop"
    /\ cur.method = "GET"
    /\ cur.expected = NoHandler
    /\ Resolve(fs, publicDir \o cur.path).kind = "file"
    /\ Sent.status = 404

====
